---- MODULE Spec2Model ----
(***************************************************************************)
(* Model of the dollar-rate pipeline of src/app.py: the archive job f      *)
(* (fetch the series, store the raw payload in S3) and the ingest job      *)
(* process_file (download an artifact, extract the latest observation,     *)
(* insert it into table dolar unless a row with that fechahora exists).    *)
(***************************************************************************)
EXTENDS Integers, Sequences, FiniteSets, TLC

VARIABLES
    tz,         \* the local time zone of the process
    rds,        \* module globals rds_host, rds_user, rds_password, rds_db
    osvalue,    \* os.environ: the text of each required variable that is set
    environ,    \* os.environ: the set of required variables that are set and non-empty
    bucket,     \* S3 bucket dolar-raw-cmjm: key -> stored body (NoObject when absent)
    clock,      \* time.time() in whole seconds
    tableExists,\* whether table dolar exists in the database
    dolar,      \* committed rows of table dolar, in insertion (id) order
    inv,        \* [Workers -> state of a process_file invocation], in order of arrival
    fetch,      \* [Fetchers -> state of the f invocation an execution environment runs]
    faults,     \* number of calls on external collaborators that have failed so far
    data,       \* input of the extractor run on its own
    out         \* result of the extractor run on its own

vars == <<tz, rds, osvalue, environ, bucket, clock, tableExists, dolar, inv, fetch, faults, data, out>>

----------------------------------------------------------------------------
(* Bounds of the model. *)

MaxLen == 2
NumWorkers == 2
NumFetchers == 1
MaxFaults == 2
MaxClock == 1

(* Program constants. *)

MsPerSecond == 1000

----------------------------------------------------------------------------
(* JSON values.  A field is a scalar or nested value inside a record of the *)
(* series; v is the number a numeric field denotes.                         *)
(*   int     JSON integer v                                                 *)
(*   numstr  string holding the decimal text of integer v                   *)
(*   decstr  string holding the decimal text of v + 0.5, e.g. "4800.50"     *)
(*   str     string that is not numeric text                                *)
(*   null    JSON null                                                      *)

IntF(n) == [k |-> "int", v |-> n]
NumStr(n) == [k |-> "numstr", v |-> n]
DecStr(n) == [k |-> "decstr", v |-> n]
BadStr == [k |-> "str", v |-> 0]
Null == [k |-> "null", v |-> 0]

Fields ==
    {IntF(999), IntF(1000), IntF(1500), NumStr(1000), NumStr(-1), DecStr(1000),
     BadStr, Null}

(* An element of the top-level array.  f holds the fields of a list, the    *)
(* characters of a string (each a one-character string), one entry per key  *)
(* of an object, and nothing for a number or null.                          *)

ListEl(fs) == [k |-> "list", f |-> fs]
StrEl(cs) == [k |-> "str", f |-> cs]
ObjEl(ks) == [k |-> "obj", f |-> ks]
NumEl == [k |-> "int", f |-> << >>]
NullEl == [k |-> "null", f |-> << >>]

Records ==
    {ListEl(<< >>)}
    \cup {ListEl(<<a>>) : a \in Fields}
    \cup {ListEl(<<a, b>>) : a \in Fields, b \in Fields}
    \cup {ListEl(<<IntF(1000), NumStr(1000), Null>>)}

Elements ==
    Records
    \cup {NumEl, NullEl,
          ObjEl(<< >>), ObjEl(<<Null, Null>>),
          StrEl(<< >>), StrEl(<<BadStr, BadStr>>), StrEl(<<NumStr(1), NumStr(1)>>)}

(* A decoded payload: an array of elements, or a value that is no array.    *)

ListOf(items) == [k |-> "list", items |-> items]
NonList(kind) == [k |-> kind, items |-> << >>]

SeqsUpTo(S, n) == UNION {[1..m -> S] : m \in 0..n}

(* The object {"series": [{"valor": f}, ...]}: items holds the objects of   *)
(* the series, each with the field of its key "valor".                      *)
ValorObj(f) == ObjEl(<<f>>)
SeriesOf(items) == [k |-> "series", items |-> items]
SeriesPayloads ==
    {SeriesOf(s) : s \in SeqsUpTo({ValorObj(NumStr(1000)), ValorObj(DecStr(1000))},
                                  MaxLen) \ {<< >>}}

Payloads ==
    {ListOf(s) : s \in SeqsUpTo(Elements, MaxLen)}
    \cup {NonList("obj"), NonList("str"), NonList("num"), NonList("null")}
    \cup SeriesPayloads

----------------------------------------------------------------------------
(* Python built-ins used by process_dollar_data.                            *)

(* len(x) raises TypeError on a number or null. *)
HasLen(e) == e.k \in {"list", "str", "obj"}

(* x[0], x[1]: positional on a list or a string; KeyError on an object,     *)
(* whose keys are strings.                                                  *)
Indexable(e) == e.k \in {"list", "str"}

(* int(x): the integer; text must be integer text ("4800.50" and null are   *)
(* refused with ValueError and TypeError).                                  *)
IntOk(x) == x.k \in {"int", "numstr"}
ToInt(x) == x.v

(* float(x), in units of one half: v -> 2v, v + 0.5 -> 2v + 1.              *)
FloatOk(x) == x.k \in {"int", "numstr", "decstr"}
ToFloat(x) == IF x.k = "decstr" THEN 2 * x.v + 1 ELSE 2 * x.v

(* The local time zone of the process.  "UTC" keeps one offset for ever.    *)
(* "DST" stands for a zone with daylight saving time: its clocks are set    *)
(* back by one unit at the instant FallBack, so the local times of the unit *)
(* before FallBack come a second time after it (the unit of the offset is   *)
(* the model's second, standing for the hour of a real zone).               *)
Zones == {"UTC", "DST"}
FallBack == 1
UtcOffset(s) == IF tz = "DST" /\ s < FallBack THEN 1 ELSE 0

(* datetime.fromtimestamp(ms / 1000).strftime('%Y-%m-%d %H:%M:%S'): the     *)
(* naive local time of the whole second the instant falls in, named here by *)
(* the number of that local second (in UTC, the number of the second).      *)
SecondOf(ms) == (ms \div MsPerSecond) + UtcOffset(ms \div MsPerSecond)

----------------------------------------------------------------------------
(* process_dollar_data: the outcome is a returned pair or a raised          *)
(* exception (exc is the exception class, msg its text).                    *)

Returned(fh, val) == [exc |-> "none", msg |-> "", fechahora |-> fh, valor |-> val]
Raised(cls, text) == [exc |-> cls, msg |-> text, fechahora |-> 0, valor |-> 0]

MsgNoList == "El archivo JSON no contiene una lista de datos"
MsgNoListOfLists == "El archivo JSON no tiene el formato esperado (lista de listas)"
MsgShortRecord == "Registro invalido: se esperan al menos 2 elementos [timestamp, valor]"
MsgBadTimestamp == "Error convirtiendo timestamp"
MsgBadValue == "Error convirtiendo valor"
MsgNoLen == "object has no len()"
MsgKeyZero == "0"

(* Faulty variant: the first record instead of the last. *)
LatestRecordFirst(d) == d.items[1]

(* data[-1] *)
LatestRecord(d) == d.items[Len(d.items)]

ProcessDollarData(d) ==
    IF d.k # "list" \/ Len(d.items) = 0
    THEN Raised("ValueError", MsgNoList)
    ELSE IF d.items[1].k # "list"
    THEN Raised("ValueError", MsgNoListOfLists)
    ELSE LET latest_record == LatestRecord(d) IN
         IF ~HasLen(latest_record)
         THEN Raised("TypeError", MsgNoLen)
         ELSE IF Len(latest_record.f) < 2
         THEN Raised("ValueError", MsgShortRecord)
         ELSE IF ~Indexable(latest_record)
         THEN Raised("KeyError", MsgKeyZero)
         ELSE LET timestamp_ms == latest_record.f[1]
                  valor_str == latest_record.f[2]
              IN IF ~IntOk(timestamp_ms)
                 THEN Raised("ValueError", MsgBadTimestamp)
                 ELSE IF ~FloatOk(valor_str)
                 THEN Raised("ValueError", MsgBadValue)
                 ELSE Returned(SecondOf(ToInt(timestamp_ms)), ToFloat(valor_str))

----------------------------------------------------------------------------
(* The artifact store.  A key n stands for "dolar-<n>.json".  A stored body  *)
(* is the JSON text of a payload (what json.dumps wrote) or bytes that are   *)
(* no JSON text.                                                             *)

NoObject == [enc |-> "absent", val |-> NonList("null")]
Garbage == [enc |-> "bytes", val |-> NonList("null")]
JsonDumps(d) == [enc |-> "json", val |-> d]

(* json.loads(file_content) *)
JsonOk(body) == body.enc = "json"
JsonLoads(body) == body.val

Rec(ts, val) == ListEl(<<ts, val>>)

(* Artifacts already archived when the model starts: keys 1..6. *)
InitialArtifacts ==
    << JsonDumps(ListOf(<<Rec(IntF(999), NumStr(1000)), Rec(IntF(1000), NumStr(1000))>>)),
       JsonDumps(ListOf(<<Rec(NumStr(1000), IntF(1000)), Rec(IntF(1500), DecStr(1000))>>)),
       JsonDumps(ListOf(<<Rec(IntF(1500), IntF(1000)), Rec(IntF(999), DecStr(1000))>>)),
       JsonDumps(NonList("obj")),
       JsonDumps(ListOf(<<Rec(IntF(1000), NumStr(1000)), NumEl>>)),
       Garbage >>

FirstClock == Len(InitialArtifacts) + 1
Keys == 1..(FirstClock + MaxClock)

(* What the upstream service may answer with a 2xx status and a JSON body. *)
UpstreamPayloads ==
    { ListOf(<<Rec(IntF(1000), NumStr(1000))>>), ListOf(<< >>) }

----------------------------------------------------------------------------
(* process_file: results, per-invocation state, and the calls it makes.      *)

Workers == 1..NumWorkers

required_vars == <<"RDS_HOST", "RDS_USER", "RDS_PASSWORD", "RDS_DB">>
RequiredSet == {required_vars[i] : i \in 1..Len(required_vars)}

(* os.environ.get(v): the text of the variable, None when it is unset. *)
None == "<None>"
LoadValue == "prod"
EnvValues == {LoadValue, "test"}
EnvironGet(v) == IF v \in environ THEN osvalue[v] ELSE None

(* validate_environment_variables: the required variables that are unset or *)
(* empty, in the order of required_vars.                                    *)
IsMissing(v) == v \notin environ

(* Faulty variant: only the first missing variable is reported. *)
MissingVarsFirstOnly ==
    IF SelectSeq(required_vars, IsMissing) = << >> THEN << >>
    ELSE <<Head(SelectSeq(required_vars, IsMissing))>>

MissingVars == SelectSeq(required_vars, IsMissing)

MsgMissingEnv == "Variables de entorno faltantes"
MsgBadEvent == "Evento S3 invalido: no se encontraron Records"
MsgDownload == "Error descargando archivo de S3"
MsgDecode == "Error decodificando JSON"
MsgProcessed == "Procesado"
MsgDbError == "pymysql error"
MsgRollbackError == "pymysql error in rollback"

NoResult ==
    [status |-> "", message |-> "", action |-> "", file |-> 0,
     error_type |-> "", missing |-> << >>]
SuccessResult(act, key) ==
    [NoResult EXCEPT !.status = "success", !.message = MsgProcessed,
                     !.action = act, !.file = key]
(* Faulty variant: the exception leaves process_file instead of becoming a *)
(* result.                                                                 *)
ErrorResultUncaught(msg, cls) ==
    [NoResult EXCEPT !.status = "raised", !.message = msg, !.error_type = cls]

ErrorResult(msg, cls) ==
    [NoResult EXCEPT !.status = "error", !.message = msg, !.error_type = cls]
ConfigErrorResult(missing) ==
    [NoResult EXCEPT !.status = "error", !.message = MsgMissingEnv,
                     !.missing = missing]

(* An arrival event: has says whether the key "Records" is present. *)
EventKeys == 1..FirstClock
NoRecordsEvent == [has |-> FALSE, records |-> << >>]
RecordsEvent(ks) == [has |-> TRUE, records |-> ks]
Events ==
    {NoRecordsEvent, RecordsEvent(<< >>)}
    \cup {RecordsEvent(<<k>>) : k \in EventKeys}
    \cup {RecordsEvent(<<k, 1>>) : k \in {2, 4}}

(* The trigger context.  db_conn is "open" when the caller put an open      *)
(* connection of its own in it, "none" when the context has no such         *)
(* attribute.                                                               *)
NoContext == [db_conn |-> "none"]
InjectedContext == [db_conn |-> "open"]

(* The arguments process_file is invoked with: every event, the event for  *)
(* artifact 3 with a context that carries a connection, the others with a   *)
(* context that carries none.                                               *)
InjectedKey == 3
ContextOf(e) ==
    IF e = RecordsEvent(<<InjectedKey>>) THEN InjectedContext ELSE NoContext
Invocations == {[event |-> e, context |-> ContextOf(e)] : e \in Events}

(* The keyword arguments of pymysql.connect in get_db_connection. *)
Port == 3306
ConnectTimeout == 10
ReadTimeout == 10
WriteTimeout == 10
ConnectArgs ==
    [host |-> rds["RDS_HOST"], port |-> Port, user |-> rds["RDS_USER"],
     password |-> rds["RDS_PASSWORD"], database |-> rds["RDS_DB"],
     connect_timeout |-> ConnectTimeout, read_timeout |-> ReadTimeout,
     write_timeout |-> WriteTimeout]
NoArgs ==
    [host |-> None, port |-> 0, user |-> None, password |-> None, database |-> None,
     connect_timeout |-> 0, read_timeout |-> 0, write_timeout |-> 0]

(* One call on an external collaborator and whether it succeeded. *)
Call(name, ok) == [call |-> name, ok |-> ok]

(* Any call on S3, the database or the upstream service may fail; the model *)
(* injects at most MaxFaults such failures in a run.                        *)
Outcomes == IF faults < MaxFaults THEN BOOLEAN ELSE {TRUE}
StatementOutcomes ==
    IF faults < MaxFaults THEN {"ok", "execute_fails", "commit_fails"} ELSE {"ok"}
Fault(ok) == faults' = IF ok THEN faults ELSE faults + 1

IdleInv ==
    [pc |-> "idle", nrecords |-> 0, records |-> << >>, key |-> 0, extracted |-> FALSE, fechahora |-> 0, valor |-> 0,
     count |-> 0, conn |-> "none", result |-> NoResult, log |-> << >>,
     rows0 |-> 0, rows1 |-> 0, context |-> NoContext, args |-> NoArgs,
     env0 |-> [v \in RequiredSet |-> None]]

(* The invocation w returns res, its local state being st (rows1: the rows *)
(* of the table at that moment; no returning step changes the table).      *)
Returns(w, st, res) ==
    inv' = [inv EXCEPT ![w] = [st EXCEPT !.pc = "done", !.result = res,
                                         !.rows1 = Len(dolar)]]

(* Faulty variant: the duplicate check never finds a row. *)
CountRowsNone(fh) == 0

(* The count of SELECT COUNT ... WHERE fechahora = fh, on the committed rows. *)
CountRows(fh) == Cardinality({i \in 1..Len(dolar) : dolar[i].fechahora = fh})

Row(fh, val) == [id |-> Len(dolar) + 1, fechahora |-> fh, valor |-> val]

(* Faulty variant: the record of the event that is read is the last one.    *)
S3RecordLast(event) == event.records[Len(event.records)]

(* The record of the event that names the artifact: Records[0], whatever    *)
(* the number of records.                                                   *)
S3Record(event) == event.records[1]

(* process_file up to its first external call: the configuration check and  *)
(* the check of the event.  The context is not read.  env0 keeps what       *)
(* os.environ holds when the configuration is checked.                      *)
StartProcessFile(w, event, context) ==
    /\ inv[w].pc = "idle"
    /\ \A v \in 1..(w - 1) : inv[v].pc # "idle"
    /\ LET st == [IdleInv EXCEPT !.rows0 = Len(dolar),
                                 !.context = context,
                                 !.env0 = [v \in RequiredSet |-> EnvironGet(v)],
                                 !.nrecords = IF event.has THEN Len(event.records)
                                              ELSE -1,
                                 !.records = IF event.has THEN event.records
                                             ELSE << >>] IN
       IF MissingVars # << >>
       THEN Returns(w, st, ConfigErrorResult(MissingVars))
       ELSE IF ~event.has \/ Len(event.records) = 0
       THEN Returns(w, st, ErrorResult(MsgBadEvent, "ValueError"))
       ELSE inv' = [inv EXCEPT ![w] =
                       [st EXCEPT !.pc = "download", !.key = S3Record(event)]]
    /\ UNCHANGED <<tz, rds, osvalue, environ, bucket, clock, tableExists, dolar, fetch, faults, data, out>>

(* Faulty variant: an exception of process_dollar_data is swallowed. *)
ExtractionNeverFails(r) == FALSE

(* An exception raised by process_dollar_data leaves the try block. *)
ExtractionFailed(r) == r.exc # "none"

(* s3.get_object, then json.loads and process_dollar_data on what it read. *)
Download(w) ==
    /\ inv[w].pc = "download"
    /\ \E ok \in (IF bucket[inv[w].key] = NoObject THEN {TRUE} ELSE Outcomes) :
         LET body == bucket[inv[w].key]
             got == ok /\ body # NoObject
             st == [inv[w] EXCEPT !.log = Append(@, Call("get_object", got))]
         IN /\ Fault(ok)
            /\ IF ~got
               THEN Returns(w, st, ErrorResult(MsgDownload, "Exception"))
               ELSE IF ~JsonOk(body)
               THEN Returns(w, st, ErrorResult(MsgDecode, "Exception"))
               ELSE LET r == ProcessDollarData(JsonLoads(body)) IN
                    IF ExtractionFailed(r)
                    THEN Returns(w, st, ErrorResult(r.msg, r.exc))
                    ELSE inv' = [inv EXCEPT ![w] =
                                    [st EXCEPT !.pc = "connect", !.extracted = TRUE,
                                               !.fechahora = r.fechahora,
                                               !.valor = r.valor]]
    /\ UNCHANGED <<tz, rds, osvalue, environ, bucket, clock, tableExists, dolar, fetch, data, out>>

(* get_db_connection *)
Connect(w) ==
    /\ inv[w].pc = "connect"
    /\ \E ok \in Outcomes :
         LET st == [inv[w] EXCEPT !.log = Append(@, Call("connect", ok)),
                                  !.args = ConnectArgs] IN
         /\ Fault(ok)
         /\ IF ok
            THEN inv' = [inv EXCEPT ![w] = [st EXCEPT !.pc = "create", !.conn = "open"]]
            ELSE Returns(w, st, ErrorResult(MsgDbError, "OperationalError"))
    /\ UNCHANGED <<tz, rds, osvalue, environ, bucket, clock, tableExists, dolar, fetch, data, out>>

(* Faulty variant: the bootstrap drops the table before it creates it. *)
CreateTableDropping(w) ==
    /\ inv[w].pc = "create"
    /\ \E outcome \in StatementOutcomes :
         LET log1 == Append(inv[w].log, Call("execute_create", outcome # "execute_fails"))
             log2 == IF outcome = "execute_fails" THEN log1
                     ELSE Append(log1, Call("commit", outcome = "ok"))
         IN /\ Fault(outcome = "ok")
            /\ tableExists' = (tableExists \/ outcome # "execute_fails")
            /\ dolar' = IF outcome # "execute_fails" THEN << >> ELSE dolar
            /\ inv' = [inv EXCEPT ![w] =
                   IF outcome = "ok"
                   THEN [@ EXCEPT !.pc = "select", !.log = log2]
                   ELSE [@ EXCEPT !.pc = "close", !.log = log2,
                                  !.result = ErrorResult(MsgDbError, "OperationalError")]]
    /\ UNCHANGED <<tz, rds, osvalue, environ, bucket, clock, fetch, data, out>>

(* create_table_if_not_exists: execute the DDL, commit; on an error the     *)
(* exception is re-raised as it is.                                         *)
CreateTable(w) ==
    /\ inv[w].pc = "create"
    /\ \E outcome \in StatementOutcomes :
         LET log1 == Append(inv[w].log, Call("execute_create", outcome # "execute_fails"))
             log2 == IF outcome = "execute_fails" THEN log1
                     ELSE Append(log1, Call("commit", outcome = "ok"))
         IN /\ Fault(outcome = "ok")
            /\ tableExists' = (tableExists \/ outcome # "execute_fails")
            /\ inv' = [inv EXCEPT ![w] =
                   IF outcome = "ok"
                   THEN [@ EXCEPT !.pc = "select", !.log = log2]
                   ELSE [@ EXCEPT !.pc = "close", !.log = log2,
                                  !.result = ErrorResult(MsgDbError, "OperationalError")]]
    /\ UNCHANGED <<tz, rds, osvalue, environ, bucket, clock, dolar, fetch, data, out>>

(* Faulty variant: the duplicate check looks for a row with the same       *)
(* fechahora and the same valor.                                            *)
SelectCountByValue(w) ==
    /\ inv[w].pc = "select"
    /\ tableExists
    /\ \E ok \in Outcomes :
         LET st == [inv[w] EXCEPT !.log = Append(@, Call("execute_select", ok))]
             n == Cardinality({i \in 1..Len(dolar) :
                                  /\ dolar[i].fechahora = inv[w].fechahora
                                  /\ dolar[i].valor = inv[w].valor})
         IN /\ Fault(ok)
            /\ inv' = [inv EXCEPT ![w] =
                   IF ~ok THEN [st EXCEPT !.pc = "rollback"]
                   ELSE IF n > 0
                   THEN [st EXCEPT !.pc = "close", !.count = n,
                                   !.result = SuccessResult("skipped", st.key)]
                   ELSE [st EXCEPT !.pc = "insert", !.count = n]]
    /\ UNCHANGED <<tz, rds, osvalue, environ, bucket, clock, tableExists, dolar, fetch,
                   data, out>>

(* insert_dollar_data, first statement: the duplicate check. *)
SelectCount(w) ==
    /\ inv[w].pc = "select"
    /\ tableExists
    /\ \E ok \in Outcomes :
         LET st == [inv[w] EXCEPT !.log = Append(@, Call("execute_select", ok))]
             n == CountRows(inv[w].fechahora)
         IN /\ Fault(ok)
            /\ inv' = [inv EXCEPT ![w] =
                   IF ~ok THEN [st EXCEPT !.pc = "rollback"]
                   ELSE IF n > 0
                   THEN [st EXCEPT !.pc = "close", !.count = n,
                                   !.result = SuccessResult("skipped", st.key)]
                   ELSE [st EXCEPT !.pc = "insert", !.count = n]]
    /\ UNCHANGED <<tz, rds, osvalue, environ, bucket, clock, tableExists, dolar, fetch, data, out>>

(* insert_dollar_data, second part: INSERT and commit.  The row becomes     *)
(* visible to other connections when the commit succeeds.                   *)
InsertRow(w) ==
    /\ inv[w].pc = "insert"
    /\ \E outcome \in StatementOutcomes :
         LET log1 == Append(inv[w].log, Call("execute_insert", outcome # "execute_fails"))
             log2 == IF outcome = "execute_fails" THEN log1
                     ELSE Append(log1, Call("commit", outcome = "ok"))
         IN /\ Fault(outcome = "ok")
            /\ dolar' = IF outcome = "ok"
                        THEN Append(dolar, Row(inv[w].fechahora, inv[w].valor))
                        ELSE dolar
            /\ inv' = [inv EXCEPT ![w] =
                   IF outcome = "ok"
                   THEN [@ EXCEPT !.pc = "close", !.log = log2,
                                  !.result = SuccessResult("inserted", inv[w].key)]
                   ELSE [@ EXCEPT !.pc = "rollback", !.log = log2]]
    /\ UNCHANGED <<tz, rds, osvalue, environ, bucket, clock, tableExists, fetch, data, out>>

(* insert_dollar_data, except clauses: rollback, then re-raise; an error of *)
(* the rollback itself propagates in place of the first one.                *)
Rollback(w) ==
    /\ inv[w].pc = "rollback"
    /\ \E ok \in Outcomes :
         /\ Fault(ok)
         /\ inv' = [inv EXCEPT ![w] =
                    [@ EXCEPT !.pc = "close",
                              !.log = Append(@, Call("rollback", ok)),
                              !.result = ErrorResult(IF ok THEN MsgDbError
                                                     ELSE MsgRollbackError,
                                                     "OperationalError")]]
    /\ UNCHANGED <<tz, rds, osvalue, environ, bucket, clock, tableExists, dolar, fetch, data, out>>

(* process_file, finally clause: close the connection; an error of close is *)
(* printed and dropped.  The result computed before is returned.            *)
Close(w) ==
    /\ inv[w].pc = "close"
    /\ \E ok \in Outcomes :
         LET st == [inv[w] EXCEPT !.log = Append(@, Call("close", ok)),
                                  !.conn = IF ok THEN "closed" ELSE "close_failed"]
         IN Fault(ok) /\ Returns(w, st, inv[w].result)
    /\ UNCHANGED <<tz, rds, osvalue, environ, bucket, clock, tableExists, dolar, fetch, data, out>>

ProcessFileStep(w) ==
    \/ \E call \in Invocations : StartProcessFile(w, call.event, call.context)
    \/ Download(w)
    \/ Connect(w)
    \/ CreateTable(w)
    \/ SelectCount(w)
    \/ InsertRow(w)
    \/ Rollback(w)
    \/ Close(w)

----------------------------------------------------------------------------
(* f: the archive job. *)

Fetchers == 1..NumFetchers

MsgTimeout == "timeout"
MsgHttpError == "http error"
MsgBodyNotJson == "response body is not JSON"
MsgPutError == "put_object error"

NoFetchResult == [status |-> "", message |-> "", filename |-> 0, records |-> -1]
FetchSuccess(name, d) ==
    [NoFetchResult EXCEPT !.status = "success", !.filename = name,
                          !.records = IF d.k = "list" THEN Len(d.items) ELSE -1]
FetchError(msg) == [NoFetchResult EXCEPT !.status = "error", !.message = msg]

IdleFetch ==
    [pc |-> "idle", payload |-> NonList("null"), filename |-> 0,
     result |-> NoFetchResult, log |-> << >>]

(* The last second of the cutoff date the tests of f speak of: later        *)
(* seconds are "out of range".  f reads no such date.                       *)
CutoffClock == FirstClock
MsgOutOfRange == "fuera de rango"

(* get_timestamp_filename: "dolar-<int(time.time())>.json" *)
TimestampFilename == clock

(* Faulty variant: an exception of fetch_dollar_data is printed and not     *)
(* raised again, so f goes on to save_to_s3 with no payload.                *)
FetchDollarDataSwallowing(p) ==
    /\ fetch[p].pc = "idle"
    /\ \A q \in 1..(p - 1) : fetch[q].pc # "idle"
    /\ \/ /\ faults < MaxFaults
          /\ Fault(FALSE)
          /\ fetch' = [fetch EXCEPT ![p] =
                      [IdleFetch EXCEPT !.pc = "save",
                                        !.log = <<[call |-> "get", ok |-> FALSE]>>,
                                        !.filename = clock]]
       \/ \E d \in UpstreamPayloads :
            /\ Fault(TRUE)
            /\ fetch' = [fetch EXCEPT ![p] =
                        [IdleFetch EXCEPT !.pc = "save", !.payload = d,
                                          !.log = <<[call |-> "get", ok |-> TRUE]>>,
                                          !.filename = clock]]
    /\ UNCHANGED <<tz, rds, osvalue, environ, bucket, clock, tableExists, dolar, inv,
                   data, out>>

(* f up to save_to_s3: fetch_dollar_data (GET, raise_for_status, json), and *)
(* the name of the file from the clock.                                     *)
FetchDollarData(p) ==
    /\ fetch[p].pc = "idle"
    /\ \A q \in 1..(p - 1) : fetch[q].pc # "idle"
    /\ \/ \E msg \in {MsgTimeout, MsgHttpError, MsgBodyNotJson} :
            /\ faults < MaxFaults
            /\ Fault(FALSE)
            /\ fetch' = [fetch EXCEPT ![p] =
                        [IdleFetch EXCEPT !.pc = "done",
                                          !.log = <<Call("get", FALSE)>>,
                                          !.result = FetchError(msg)]]
       \/ \E d \in UpstreamPayloads :
            /\ Fault(TRUE)
            /\ fetch' = [fetch EXCEPT ![p] =
                        [IdleFetch EXCEPT !.pc = "save", !.payload = d,
                                          !.log = <<Call("get", TRUE)>>,
                                          !.filename = TimestampFilename]]
    /\ UNCHANGED <<tz, rds, osvalue, environ, bucket, clock, tableExists, dolar, inv, data, out>>

(* save_to_s3, and the result of f. *)
SaveToS3(p) ==
    /\ fetch[p].pc = "save"
    /\ \E ok \in Outcomes :
         /\ Fault(ok)
         /\ bucket' = IF ok
                      THEN [bucket EXCEPT ![fetch[p].filename] = JsonDumps(fetch[p].payload)]
                      ELSE bucket
         /\ fetch' = [fetch EXCEPT ![p] =
                [@ EXCEPT !.pc = "done",
                          !.log = Append(@, Call("put_object", ok)),
                          !.result = IF ok THEN FetchSuccess(fetch[p].filename,
                                                           fetch[p].payload)
                                     ELSE FetchError(MsgPutError)]]
    /\ UNCHANGED <<tz, rds, osvalue, environ, clock, tableExists, dolar, inv, data, out>>

(* f has returned: the execution environment is free and the next trigger  *)
(* invokes f in it again.                                                   *)
InvokeAgain(p) ==
    /\ fetch[p].pc = "done"
    /\ fetch' = [fetch EXCEPT ![p] = IdleFetch]
    /\ UNCHANGED <<tz, rds, osvalue, environ, bucket, clock, tableExists, dolar, inv,
                   faults, data, out>>

FetchStep(p) == FetchDollarData(p) \/ SaveToS3(p)

(* A second passes. *)
Tick ==
    /\ clock < FirstClock + MaxClock
    /\ clock' = clock + 1
    /\ UNCHANGED <<tz, rds, osvalue, environ, bucket, tableExists, dolar, inv, fetch, faults, data, out>>

----------------------------------------------------------------------------
(* The pipeline: any interleaving of the steps of concurrent invocations.   *)

NotRun == Raised("", "")

InitialBucket ==
    [k \in Keys |-> IF k <= Len(InitialArtifacts) THEN InitialArtifacts[k] ELSE NoObject]

(* The module is loaded: rds_host, rds_user, rds_password and rds_db take  *)
(* what os.environ holds at that moment.                                    *)
Init ==
    /\ tz = "UTC"
    /\ osvalue = [v \in RequiredSet |-> LoadValue]
    /\ environ \in SUBSET RequiredSet
    /\ rds = [v \in RequiredSet |-> EnvironGet(v)]
    /\ bucket = InitialBucket
    /\ clock = FirstClock
    /\ tableExists = FALSE
    /\ dolar = << >>
    /\ inv = [w \in Workers |-> IdleInv]
    /\ fetch = [p \in Fetchers |-> IdleFetch]
    /\ faults = 0
    /\ data = NonList("null")
    /\ out = NotRun

Next ==
    \/ \E w \in Workers : ProcessFileStep(w)
    \/ \E p \in Fetchers : FetchStep(p)
    \/ Tick

Spec == Init /\ [][Next]_vars

(* One process_file invocation at a time: an invocation starts only when no *)
(* other is running.                                                        *)
NoneRunning == \A w \in Workers : inv[w].pc \in {"idle", "done"}

SeqNext ==
    \E w \in Workers :
        \/ NoneRunning /\ \E call \in Invocations :
                              StartProcessFile(w, call.event, call.context)
        \/ Download(w)
        \/ Connect(w)
        \/ CreateTable(w)
        \/ SelectCount(w)
        \/ InsertRow(w)
        \/ Rollback(w)
        \/ Close(w)

SeqSpec == Init /\ [][SeqNext]_vars

(* The environment is changed after the module was loaded, as              *)
(* patch.dict(os.environ, ...) does in the tests: every required variable   *)
(* takes a new text, or the environment is cleared.  It happens between     *)
(* invocations, and once.                                                   *)
PatchEnviron(names) ==
    /\ NoneRunning
    /\ \A v \in RequiredSet : EnvironGet(v) = rds[v]
    /\ environ' = names
    /\ osvalue' = [v \in RequiredSet |-> "test"]
    /\ UNCHANGED <<tz, rds, bucket, clock, tableExists, dolar, inv, fetch, faults,
                   data, out>>

EnvNext ==
    \/ SeqNext
    \/ \E names \in {RequiredSet, {}} : PatchEnviron(names)

EnvSpec == Init /\ [][EnvNext]_vars

(* The archive job on its own: f invoked again and again, as the schedule  *)
(* or a manual trigger asks, while time passes.                             *)
ArchiveNext ==
    \/ \E p \in Fetchers : FetchDollarData(p)
    \/ \E p \in Fetchers : SaveToS3(p)
    \/ \E p \in Fetchers : InvokeAgain(p)
    \/ Tick

ArchiveSpec == Init /\ [][ArchiveNext]_vars

(* process_dollar_data on its own, on every payload of the bounded set. *)
ExtractInit ==
    /\ tz = "UTC"
    /\ osvalue = [v \in RequiredSet |-> LoadValue]
    /\ environ = RequiredSet
    /\ rds = [v \in RequiredSet |-> EnvironGet(v)]
    /\ bucket = InitialBucket
    /\ clock = FirstClock
    /\ tableExists = FALSE
    /\ dolar = << >>
    /\ inv = [w \in Workers |-> IdleInv]
    /\ fetch = [p \in Fetchers |-> IdleFetch]
    /\ faults = 0
    /\ data \in Payloads
    /\ out = NotRun

Extract ==
    /\ out = NotRun
    /\ out' = ProcessDollarData(data)
    /\ UNCHANGED <<tz, rds, osvalue, environ, bucket, clock, tableExists, dolar, inv, fetch, faults, data>>

ExtractSpec == ExtractInit /\ [][Extract]_vars

(* process_dollar_data on payloads of one record, in every time zone of the *)
(* model: the timestamps lie around the seconds 0 to 3, as integers and as  *)
(* integer text.                                                            *)
EpochMs == {-1000, -1, 0, 1, 500, 999, 1000, 1001, 1500, 1999, 2000, 2500, 2999, 3000}
TimedPayloads ==
    {ListOf(<<Rec(ts, NumStr(1000))>>) :
        ts \in {IntF(e) : e \in EpochMs} \cup {NumStr(e) : e \in EpochMs}}

ZoneInit ==
    /\ tz \in Zones
    /\ osvalue = [v \in RequiredSet |-> LoadValue]
    /\ environ = RequiredSet
    /\ rds = [v \in RequiredSet |-> EnvironGet(v)]
    /\ bucket = InitialBucket
    /\ clock = FirstClock
    /\ tableExists = FALSE
    /\ dolar = << >>
    /\ inv = [w \in Workers |-> IdleInv]
    /\ fetch = [p \in Fetchers |-> IdleFetch]
    /\ faults = 0
    /\ data \in TimedPayloads
    /\ out = NotRun

ZoneSpec == ZoneInit /\ [][Extract]_vars

----------------------------------------------------------------------------
(* Properties of process_dollar_data (specification ExtractSpec).           *)

Ran == out # NotRun

(* A record [timestamp, valor, ...] with an integer timestamp (a number or  *)
(* integer text) and a numeric value.                                       *)
GoodRecord(e) ==
    /\ e.k = "list"
    /\ Len(e.f) >= 2
    /\ IntOk(e.f[1])
    /\ FloatOk(e.f[2])

WellFormed(d) ==
    /\ d.k = "list"
    /\ Len(d.items) >= 1
    /\ \A i \in 1..Len(d.items) : GoodRecord(d.items[i])

Last(d) == d.items[Len(d.items)]

(* C3: for every well-formed payload the observation returned is built from *)
(* the last element of the array (second of its field 0, value of its field *)
(* 1), whatever the length of the array and the order of the timestamps.    *)
C3_LastPairSelected ==
    (Ran /\ WellFormed(data)) =>
        /\ out.exc = "none"
        /\ out.fechahora = Last(data).f[1].v \div MsPerSecond
        /\ out.valor = ToFloat(Last(data).f[2])

(* C3 witness: a well-formed payload of two records whose first record has  *)
(* the later timestamp and another value; the result is that of the last.   *)
C3_Witness ==
    /\ Ran
    /\ WellFormed(data)
    /\ Len(data.items) = 2
    /\ data.items[1].f[1].v > data.items[2].f[1].v
    /\ data.items[1].f[1].v \div MsPerSecond # data.items[2].f[1].v \div MsPerSecond
    /\ ToFloat(data.items[1].f[2]) # ToFloat(data.items[2].f[2])
    /\ out.exc = "none"
    /\ out.fechahora = 0

(* The payloads the extractor is to refuse: empty or not an array, some     *)
(* element that is no array or has fewer than 2 fields, or a timestamp or   *)
(* value of the selected record that is not numeric.                        *)
ShapeOk(d) ==
    /\ d.k = "list"
    /\ Len(d.items) >= 1
    /\ \A i \in 1..Len(d.items) : d.items[i].k = "list" /\ Len(d.items[i].f) >= 2

ToBeRejected(d) ==
    \/ ~ShapeOk(d)
    \/ ~IntOk(Last(d).f[1])
    \/ ~FloatOk(Last(d).f[2])

(* C4: every payload to be refused fails with ValueError and no other kind  *)
(* of exception, and an observation is returned only for a non-empty array  *)
(* whose elements are all arrays of length >= 2.                            *)
C4_RejectionSet ==
    Ran =>
        /\ ToBeRejected(data) => out.exc = "ValueError"
        /\ out.exc = "none" => ShapeOk(data)

(* What the code does guarantee: it never returns for an empty payload, a   *)
(* payload that is no array, or a first element that is no array, which all *)
(* fail with ValueError.                                                    *)
C4_CheckedShapesRejected ==
    (Ran /\ (data.k # "list" \/ Len(data.items) = 0 \/ data.items[1].k # "list")) =>
        out.exc = "ValueError"

----------------------------------------------------------------------------
(* Properties of process_file and f.                                        *)

Done(w) == inv[w].pc = "done"

CallsOf(lg) == {lg[i].call : i \in 1..Len(lg)}
FailedCalls(lg) == {lg[i].call : i \in {j \in 1..Len(lg) : ~lg[j].ok}}
Made(lg, name) == name \in CallsOf(lg)
Succeeded(lg, name) == \E i \in 1..Len(lg) : lg[i].call = name /\ lg[i].ok

DbCalls ==
    {"connect", "execute_create", "execute_select", "execute_insert", "commit",
     "rollback", "close"}

(* The invocation w extracted an observation and returned success. *)
Ingested(w) ==
    /\ Done(w)
    /\ inv[w].extracted
    /\ inv[w].result.status = "success"

C2_UniqueFechahora ==
    \A i, j \in 1..Len(dolar) :
        dolar[i].fechahora = dolar[j].fechahora => i = j

(* The artifact the invocation w downloaded is no JSON text, or the         *)
(* extractor fails on it.                                                   *)
InvalidArtifact(w) ==
    /\ Succeeded(inv[w].log, "get_object")
    /\ LET body == bucket[inv[w].key] IN
         \/ ~(body.enc = "json")
         \/ ProcessDollarData(body.val).exc # "none"

SeqElems(sq) == {sq[i] : i \in 1..Len(sq)}

BadEvent(w) == inv[w].nrecords <= 0

(* C7: for an event without records, in every configuration state,          *)
(* process_file returns status "error" with the invalid-event message and   *)
(* makes no download and no database call.                                  *)
C7_BadEventReported ==
    \A w \in Workers :
        (Done(w) /\ BadEvent(w)) =>
            /\ inv[w].result.status = "error"
            /\ inv[w].result.message = MsgBadEvent
            /\ inv[w].log = << >>

(* What the code does: the invalid-event result when the configuration is   *)
(* complete, the configuration error otherwise; no call either way.         *)
C7_BadEventWhenConfigured ==
    \A w \in Workers :
        (Done(w) /\ BadEvent(w)) =>
            /\ inv[w].result.status = "error"
            /\ inv[w].result.message =
                   (IF environ = RequiredSet THEN MsgBadEvent ELSE MsgMissingEnv)
            /\ inv[w].log = << >>

Running(w) == inv[w].pc \notin {"idle", "done"}

FetchDone(p) == fetch[p].pc = "done"

(* A step of process_file that fails before any call or between calls: the  *)
(* configuration check, the check of the event, json.loads or the           *)
(* extractor.                                                               *)
LocalFailure(w) ==
    \/ RequiredSet \ environ # {}
    \/ BadEvent(w)
    \/ Succeeded(inv[w].log, "get_object") /\ ~inv[w].extracted

(* C8 as stated: every invocation returns a structured result, and the      *)
(* failure of any step, rollback and connection close included, yields a    *)
(* result with status "error" and a message.                                *)
C8_EveryFailureIsError ==
    /\ \A w \in Workers :
          Done(w) =>
            /\ inv[w].result.status \in {"success", "error"}
            /\ (FailedCalls(inv[w].log) # {} \/ LocalFailure(w)) =>
                  (inv[w].result.status = "error" /\ inv[w].result.message # "")
    /\ \A p \in Fetchers :
          FetchDone(p) =>
            /\ fetch[p].result.status \in {"success", "error"}
            /\ FailedCalls(fetch[p].log) # {} =>
                  (fetch[p].result.status = "error" /\ fetch[p].result.message # "")

(* C8 amended: every invocation of f and of process_file that has started   *)
(* can take its next step and ends with a structured result of status       *)
(* "success" or "error"; the failure of any step other than the connection  *)
(* close yields status "error" with a message; a failure of close alone     *)
(* leaves the result computed before it, and a run without failure returns  *)
(* status "success".                                                        *)
C8_ErrorContainment ==
    /\ \A w \in Workers :
          /\ Running(w) => ENABLED ProcessFileStep(w)
          /\ Done(w) =>
                /\ inv[w].result.status \in {"success", "error"}
                /\ (FailedCalls(inv[w].log) \ {"close"} # {} \/ LocalFailure(w)) =>
                      (inv[w].result.status = "error" /\ inv[w].result.message # "")
                /\ (FailedCalls(inv[w].log) \subseteq {"close"} /\ ~LocalFailure(w)) =>
                      inv[w].result.status = "success"
    /\ \A p \in Fetchers :
          /\ fetch[p].pc = "save" => ENABLED SaveToS3(p)
          /\ FetchDone(p) =>
                /\ fetch[p].result.status \in {"success", "error"}
                /\ FailedCalls(fetch[p].log) # {} =>
                      (fetch[p].result.status = "error" /\ fetch[p].result.message # "")
                /\ FailedCalls(fetch[p].log) = {} => fetch[p].result.status = "success"

(* C8 witness: an invocation inserted its row, close failed, and the result *)
(* returned is the success computed before; an f invocation has failed.     *)
C8_Witness ==
    /\ \E w \in Workers :
          /\ Done(w)
          /\ FailedCalls(inv[w].log) = {"close"}
          /\ inv[w].result.status = "success"
          /\ inv[w].result.action = "inserted"
    /\ \E p \in Fetchers :
          FetchDone(p) /\ fetch[p].result.status = "error"

(* C9: whenever get_db_connection returned a connection, a commit or a      *)
(* rollback ends the transaction and then close is called exactly once, as  *)
(* the last call of the invocation.                                         *)
C9_CommitOrRollbackThenClose ==
    \A w \in Workers :
        (Done(w) /\ Succeeded(inv[w].log, "connect")) =>
            LET lg == inv[w].log IN
            /\ lg[Len(lg)].call = "close"
            /\ Cardinality({i \in 1..Len(lg) : lg[i].call = "close"}) = 1
            /\ \E i \in 1..(Len(lg) - 1) : lg[i].call \in {"commit", "rollback"}

(* What the code does guarantee: close is called exactly once, as the last  *)
(* call, on every path on which a connection was opened.                    *)
C9_ClosedExactlyOnce ==
    \A w \in Workers :
        (Done(w) /\ Succeeded(inv[w].log, "connect")) =>
            LET lg == inv[w].log IN
            /\ lg[Len(lg)].call = "close"
            /\ Cardinality({i \in 1..Len(lg) : lg[i].call = "close"}) = 1

Statements == {"execute_create", "execute_select", "execute_insert", "commit"}

(* C10: whenever a database statement fails during the bootstrap or during  *)
(* the duplicate check or insert, rollback is called before the error is    *)
(* returned as a status "error" result, and no row of that invocation is    *)
(* committed.                                                               *)
C10_RollbackOnDbError ==
    \A w \in Workers :
        Done(w) =>
            LET lg == inv[w].log IN
            \A i \in 1..Len(lg) :
                (lg[i].call \in Statements /\ ~lg[i].ok) =>
                    /\ \E j \in (i + 1)..Len(lg) : lg[j].call = "rollback"
                    /\ inv[w].result.status = "error"
                    /\ inv[w].rows1 = inv[w].rows0

(* What the code does: the rollback follows a failure of the duplicate      *)
(* check, of the INSERT or of its commit; a failure of the bootstrap is     *)
(* returned as an error without a rollback.                                 *)
C10_RollbackOnInsertError ==
    \A w \in Workers :
        Done(w) =>
            LET lg == inv[w].log IN
            \A i \in 1..Len(lg) :
                (lg[i].call \in Statements /\ ~lg[i].ok) =>
                    /\ inv[w].result.status = "error"
                    /\ inv[w].rows1 = inv[w].rows0
                    /\ (\E j \in (i + 1)..Len(lg) : lg[j].call = "rollback")
                        <=> Made(lg, "execute_select")

----------------------------------------------------------------------------
(* Properties of the connection handling of process_file.                   *)

Injected(w) == inv[w].context.db_conn = "open"

(* C11: when the caller supplies an open connection in the context,         *)
(* process_file opens no connection of its own, runs the bootstrap and the  *)
(* duplicate check on the supplied connection, and closes no connection.    *)
C11_SuppliedConnectionUsed ==
    \A w \in Workers :
        (Done(w) /\ Injected(w)) =>
            /\ ~Made(inv[w].log, "connect")
            /\ ~Made(inv[w].log, "close")
            /\ inv[w].extracted => Made(inv[w].log, "execute_create")

(* What the code does: the context is never read; with or without a         *)
(* supplied connection process_file connects by itself once the artifact    *)
(* was extracted, and the supplied connection is left open.                 *)
C11_AlwaysOwnConnection ==
    \A w \in Workers :
        Done(w) =>
            /\ inv[w].extracted <=> Made(inv[w].log, "connect")
            /\ Injected(w) => inv[w].context.db_conn = "open"

----------------------------------------------------------------------------
(* Properties of the results of f and process_file.                         *)

StatusVocabulary == {"ok", "error", "skipped"}

(* C12: every result of f and of process_file has a status among "ok",      *)
(* "error" and "skipped"; a run that completes without failure returns      *)
(* status "ok", and a successful ingest carries action "inserted" or        *)
(* "skipped" and the key of the artifact in file.                           *)
C12_StatusVocabulary ==
    /\ \A w \in Workers :
          Done(w) =>
            /\ inv[w].result.status \in StatusVocabulary
            /\ (inv[w].extracted /\ Succeeded(inv[w].log, "execute_select")
                /\ FailedCalls(inv[w].log) = {}) =>
                  /\ inv[w].result.status = "ok"
                  /\ inv[w].result.action \in {"inserted", "skipped"}
                  /\ inv[w].result.file = inv[w].key
    /\ \A p \in Fetchers :
          FetchDone(p) =>
            /\ fetch[p].result.status \in StatusVocabulary
            /\ Succeeded(fetch[p].log, "put_object") => fetch[p].result.status = "ok"

(* What the code returns: status "success" where the claim says "ok", and   *)
(* never "skipped"; the action and the file of a successful ingest are as   *)
(* the claim says.                                                          *)
C12_SuccessVocabulary ==
    /\ \A w \in Workers :
          Done(w) =>
            /\ inv[w].result.status \in {"success", "error"}
            /\ inv[w].result.status = "success" =>
                  /\ inv[w].result.action \in {"inserted", "skipped"}
                  /\ inv[w].result.file = inv[w].key
    /\ \A p \in Fetchers :
          FetchDone(p) =>
            /\ fetch[p].result.status \in {"success", "error"}
            /\ Succeeded(fetch[p].log, "put_object") =>
                  fetch[p].result.status = "success"

----------------------------------------------------------------------------
(* Properties of the archive job f (specification ArchiveSpec).             *)

PutCalls(lg) == {i \in 1..Len(lg) : lg[i].call = "put_object"}

(* C13: in every execution of f, put_object is called at most once and only *)
(* after fetch_dollar_data returned a payload; the object store changes     *)
(* only by a put of that payload under the file name of the invocation; and *)
(* when the fetch fails nothing is put and f returns status "error".        *)
C13_WriteOnlyAfterFetch ==
    /\ [](\A p \in Fetchers :
            /\ Cardinality(PutCalls(fetch[p].log)) <= 1
            /\ \A i \in PutCalls(fetch[p].log) :
                  i = 2 /\ fetch[p].log[1] = Call("get", TRUE)
            /\ (FetchDone(p) /\ ~Succeeded(fetch[p].log, "get")) =>
                  /\ PutCalls(fetch[p].log) = {}
                  /\ fetch[p].result.status = "error"
                  /\ fetch[p].result.message # "")
    /\ [][bucket' # bucket =>
            \E p \in Fetchers :
                /\ fetch[p].pc = "save"
                /\ fetch[p].log = <<Call("get", TRUE)>>
                /\ fetch'[p].log = <<Call("get", TRUE), Call("put_object", TRUE)>>
                /\ bucket' = [bucket EXCEPT ![fetch[p].filename] =
                                                JsonDumps(fetch[p].payload)]]_vars

(* C13 witness: an earlier invocation archived a payload in this second,    *)
(* and the invocation after it failed to fetch and returned an error.       *)
C13_Witness ==
    \E p \in Fetchers :
        /\ FetchDone(p)
        /\ fetch[p].log = <<Call("get", FALSE)>>
        /\ fetch[p].result.status = "error"
        /\ bucket[FirstClock] # NoObject

(* C14: across any sequence or interleaving of invocations, also of two     *)
(* within the same second, no artifact key is written more than once: a     *)
(* put never goes to a key that holds an object, and no stored object is    *)
(* ever changed or removed.                                                 *)
C14_WriteOnce ==
    [][/\ \A p \in Fetchers :
            (fetch[p].pc = "save" /\ Succeeded(fetch'[p].log, "put_object")) =>
                bucket[fetch[p].filename] = NoObject
       /\ \A k \in Keys : bucket[k] # NoObject => bucket'[k] = bucket[k]]_vars

(* What the code does guarantee: an object is written only under the name   *)
(* of the second in which its invocation read the clock, so invocations     *)
(* that read the clock in different seconds write different keys.           *)
C14_KeyIsSecondOfInvocation ==
    [][\A k \in Keys :
          bucket'[k] # bucket[k] =>
              \E p \in Fetchers :
                  /\ fetch[p].pc = "save"
                  /\ fetch[p].filename = k
                  /\ k <= clock]_vars

----------------------------------------------------------------------------
(* Further properties of process_dollar_data (specification ExtractSpec).   *)

(* The payload is an array whose last element is a record with an integer   *)
(* timestamp and a numeric value.                                           *)
LatestIsNumeric(d) ==
    /\ d.k = "list"
    /\ Len(d.items) >= 1
    /\ d.items[1].k = "list"
    /\ GoodRecord(Last(d))

(* C15: every observation returned has a value that is not negative, and a  *)
(* payload whose latest record carries a negative value is refused with     *)
(* ValueError.                                                              *)
C15_ValueNonNegative ==
    Ran =>
        /\ out.exc = "none" => out.valor >= 0
        /\ (LatestIsNumeric(data) /\ ToFloat(Last(data).f[2]) < 0) =>
              out.exc = "ValueError"

(* What the code does: the value returned is float() of field 1 of the last *)
(* record, whatever its sign.                                               *)
C15_ValueIsFloatOfField ==
    (Ran /\ LatestIsNumeric(data)) =>
        /\ out.exc = "none"
        /\ out.valor = ToFloat(Last(data).f[2])

(* A payload {"series": [{"valor": v}, ...]} with numeric values. *)
SeriesPayload(d) ==
    /\ d.k = "series"
    /\ Len(d.items) >= 1
    /\ \A i \in 1..Len(d.items) :
          d.items[i].k = "obj" /\ Len(d.items[i].f) = 1 /\ FloatOk(d.items[i].f[1])

(* C16: for every object whose "series" holds a non-empty array of objects  *)
(* with a "valor" field, the extractor returns an observation whose value   *)
(* is the "valor" of the first element and whose time is the current        *)
(* second of the clock; it raises no exception.                             *)
C16_SeriesVariantAccepted ==
    (Ran /\ SeriesPayload(data)) =>
        /\ out.exc = "none"
        /\ out.valor = ToFloat(data.items[1].f[1])
        /\ out.fechahora = clock + UtcOffset(clock)

(* What the code does: every payload that is no array, the object with a    *)
(* series included, is refused with ValueError and the message asking for a *)
(* list of data.                                                            *)
C16_ObjectsRefused ==
    (Ran /\ data.k # "list") =>
        /\ out.exc = "ValueError"
        /\ out.msg = MsgNoList

----------------------------------------------------------------------------
(* The cutoff date of the archive job (specification ArchiveSpec).          *)

(* C17: an invocation of f that begins after the cutoff returns status      *)
(* "skipped" with the out-of-range message, and makes neither the fetch nor *)
(* a write to the object store; one that begins on or before the cutoff     *)
(* performs the fetch.                                                      *)
C17_CutoffGate ==
    [][\A p \in Fetchers :
          (fetch[p].pc = "idle" /\ fetch'[p].pc # "idle") =>
              IF clock > CutoffClock
              THEN /\ fetch'[p].pc = "done"
                   /\ fetch'[p].result.status = "skipped"
                   /\ fetch'[p].result.message = MsgOutOfRange
                   /\ fetch'[p].log = << >>
                   /\ bucket' = bucket
              ELSE Made(fetch'[p].log, "get")]_vars

(* What the code does: f performs the fetch whatever the date. *)
C17_AlwaysFetches ==
    [][\A p \in Fetchers :
          (fetch[p].pc = "idle" /\ fetch'[p].pc # "idle") =>
              /\ Made(fetch'[p].log, "get")
              /\ fetch'[p].result.status # "skipped"]_vars

----------------------------------------------------------------------------
(* The arguments of the database connection (specification EnvSpec).        *)

(* C18: whenever process_file opens a connection, host, user, password and  *)
(* database are the values RDS_HOST, RDS_USER, RDS_PASSWORD and RDS_DB have *)
(* in the environment at the time of the invocation, the port is 3306 and   *)
(* the three timeouts are 10, also when the environment was changed after   *)
(* the module was loaded.                                                   *)
C18_ArgsFromEnvironment ==
    \A w \in Workers :
        Made(inv[w].log, "connect") =>
            inv[w].args =
                [host |-> inv[w].env0["RDS_HOST"], port |-> 3306,
                 user |-> inv[w].env0["RDS_USER"],
                 password |-> inv[w].env0["RDS_PASSWORD"],
                 database |-> inv[w].env0["RDS_DB"],
                 connect_timeout |-> 10, read_timeout |-> 10, write_timeout |-> 10]

(* What the code does: the four values are those the module read when it    *)
(* was loaded; port and timeouts are as the claim says.                     *)
C18_ArgsFromModuleLoad ==
    \A w \in Workers :
        Made(inv[w].log, "connect") =>
            inv[w].args =
                [host |-> rds["RDS_HOST"], port |-> 3306,
                 user |-> rds["RDS_USER"],
                 password |-> rds["RDS_PASSWORD"],
                 database |-> rds["RDS_DB"],
                 connect_timeout |-> 10, read_timeout |-> 10, write_timeout |-> 10]

----------------------------------------------------------------------------
(* The rows of table dolar (specification Spec).                            *)

(* The invocation w executed its INSERT and committed it. *)
CommittedInsert(w) ==
    \E i \in 1..(Len(inv[w].log) - 1) :
        /\ inv[w].log[i] = Call("execute_insert", TRUE)
        /\ inv[w].log[i + 1] = Call("commit", TRUE)

----------------------------------------------------------------------------
(* The conversion of the timestamp (specification ZoneSpec).                *)

(* The naive local time l read back as an instant in the same zone: the     *)
(* second whose local time is l, the earlier one when l comes twice.        *)
LocalSeconds == -3..5
InstantsOf(l) == {s \in LocalSeconds : s + UtcOffset(s) = l}
EpochSecondOf(l) == CHOOSE s \in InstantsOf(l) : \A t \in InstantsOf(l) : s <= t

(* C20: for every millisecond epoch E, given as an integer or as integer    *)
(* text, the time returned, converted back to epoch milliseconds in the     *)
(* same local zone, is (E // 1000) * 1000; and two timestamps in the same   *)
(* second give the same time.                                               *)
C20_EpochRoundTrip ==
    Ran =>
        LET E == Last(data).f[1].v IN
        /\ out.exc = "none"
        /\ EpochSecondOf(out.fechahora) * 1000 = (E \div 1000) * 1000
        /\ \A E2 \in EpochMs :
              E2 \div 1000 = E \div 1000 =>
                  ProcessDollarData(ListOf(<<Rec(IntF(E2), NumStr(1000))>>)).fechahora
                      = out.fechahora

(* What the code does guarantee: the time returned is the local time of the *)
(* second E // 1000, the same for the integer and for its text; it reads    *)
(* back as (E // 1000) * 1000 in a zone whose offset never changes, and in  *)
(* any zone as one of the instants that have this local time.               *)
C20_LocalSecondOfEpoch ==
    Ran =>
        LET E == Last(data).f[1].v IN
        /\ out.exc = "none"
        /\ (E \div 1000) \in InstantsOf(out.fechahora)
        /\ tz = "UTC" => EpochSecondOf(out.fechahora) * 1000 = (E \div 1000) * 1000

----------------------------------------------------------------------------
(* The duplicate check under sequential invocation (specification SeqSpec). *)

(* The rows with the fechahora of invocation w that the table held when w   *)
(* began.                                                                   *)
RowsBefore(w) ==
    {i \in 1..inv[w].rows0 : dolar[i].fechahora = inv[w].fechahora}

CallsNamed(lg, name) == {i \in 1..Len(lg) : lg[i].call = name}

(* C21: when an invocation ingests an observation whose fechahora is in the *)
(* table already, with whatever value, it reports "skipped", executes no    *)
(* INSERT and no commit after the bootstrap, and leaves the rows as they    *)
(* are; and the valor stored for a fechahora is the value of the first      *)
(* invocation that inserted it.                                             *)
C21_FirstWriteWins ==
    /\ \A w \in Workers :
          (Done(w) /\ Succeeded(inv[w].log, "execute_select") /\ RowsBefore(w) # {}) =>
              /\ inv[w].result.status = "success"
              /\ inv[w].result.action = "skipped"
              /\ CallsNamed(inv[w].log, "execute_insert") = {}
              /\ \A i \in CallsNamed(inv[w].log, "commit") :
                    inv[w].log[i - 1].call = "execute_create"
              /\ inv[w].rows1 = inv[w].rows0
              /\ \A i \in RowsBefore(w) :
                    \E v \in 1..(w - 1) :
                        /\ CommittedInsert(v)
                        /\ dolar[i].valor = inv[v].valor
    /\ \A i \in 1..Len(dolar) :
          \E w \in Workers :
              /\ CommittedInsert(w)
              /\ inv[w].fechahora = dolar[i].fechahora
              /\ inv[w].valor = dolar[i].valor
              /\ \A v \in Workers :
                    (CommittedInsert(v) /\ inv[v].fechahora = dolar[i].fechahora) =>
                        w <= v

(* C21 witness: the first invocation inserted the observation of artifact 1 *)
(* and the second, on artifact 2 with the same fechahora and another value, *)
(* skipped; the row holds the value of the first.                           *)
C21_Witness ==
    /\ Done(1) /\ Done(2)
    /\ inv[1].result.action = "inserted"
    /\ inv[2].result.action = "skipped"
    /\ inv[1].fechahora = inv[2].fechahora
    /\ inv[1].valor # inv[2].valor
    /\ Len(dolar) = 1
    /\ dolar[1].valor = inv[1].valor

----------------------------------------------------------------------------
(* The records of the arrival event. *)

(* The observation in the artifact that the first record of w's event names. *)
FirstArtifact(w) == ProcessDollarData(JsonLoads(bucket[inv[w].records[1]]))

====
